---- MODULE Spec2Model ----
(***************************************************************************)
(* Model of the send-file connector, src/src/sendConnector.c: one          *)
(* transmission (HttpTx) with its connector queue (HttpQueue), the         *)
(* scatter-gather vector q->iovec, and the three stage callbacks           *)
(* httpSendOpen, httpSendOutgoingService and sendClose.                    *)
(*                                                                         *)
(* Bytes carry an identity so that order, gaps and duplicates can be seen  *)
(* on the wire: a file byte is its offset in the file, a memory byte is a  *)
(* number MemTag gives it.  A buffer (MprBuf) is the sequence of bytes     *)
(* between its start and end pointers, an iovec entry (start, len) is the  *)
(* sequence of bytes it points at.                                         *)
(***************************************************************************)
EXTENDS Integers, Sequences, FiniteSets, TLC

(* ------------------------------ bounds --------------------------------- *)
\* Most packets (header and data) put on the queue before the End packet.
MaxPackets == 2
\* Length of every non-empty prefix, content buffer, and file extent.
BufLen == 2
\* Size of q->iovec; buildSendVec stops adding at ME_MAX_IOVEC - 2 entries.
ME_MAX_IOVEC == 4

(* --------------------------- program constants ------------------------- *)
\* The sentinel of "no limit" for limits->txBodySize.
HTTP_UNLIMITED == 1000
\* errno values the transport can leave behind a negative result.
ErrCodes == {"EAGAIN", "EWOULDBLOCK", "EPIPE", "ECONNRESET", "ECONNABORTED", "ENOTCONN", "EIO"}

VARIABLES
    queue,              \* q->first ... : the packets, front first
    count,              \* q->count
    iovec,              \* q->iovec, a function on 0 .. ME_MAX_IOVEC - 1
    ioIndex,            \* q->ioIndex
    ioCount,            \* q->ioCount
    ioFile,             \* q->ioFile
    ioPos,              \* q->ioPos
    file,               \* tx->file: TRUE while the handle is open
    bytesWritten,       \* tx->bytesWritten
    writeBlocked,       \* tx->writeBlocked
    finalizedConnector, \* tx->finalizedConnector
    noBody,             \* tx->flags & HTTP_TX_NO_BODY
    headersCreated,     \* tx->flags & HTTP_TX_HEADERS_CREATED
    fileSize,           \* tx->fileInfo.size
    txBodySize,         \* conn->limits->txBodySize
    phase,              \* "created", then what httpSendOpen made of it
    closed,             \* sendClose has run: the stage takes no more service calls
    errors,             \* conditions signalled to the connection (httpError, httpLimitError)
    disconnected,       \* httpDisconnect was called
    finalizeCount,      \* number of httpFinalizeConnector calls
    fileOpens,          \* number of mprOpenFile calls
    fileCloses,         \* number of mprCloseFile calls
    wire,               \* every byte the transport accepted, in order
    orig,               \* the bytes of the packets as queued, in queue order
    sockReq,            \* arguments of the transport call of the last service call, or NoReq
    lastResult,         \* its outcome: "written", "zero" or the errno; "nocall" without a call
    rebuilt,            \* the last service call ran buildSendVec
    dropped,            \* unsent bytes held by packets when they were taken off the queue
    leftover            \* `bytes` at the end of the last freeSendPackets

vars == <<queue, count, iovec, ioIndex, ioCount, ioFile, ioPos, file, bytesWritten,
          writeBlocked, finalizedConnector, noBody, headersCreated, fileSize, txBodySize,
          phase, closed, errors, disconnected, finalizeCount, fileOpens, fileCloses,
          wire, orig, sockReq, lastResult, rebuilt, dropped, leftover>>

(* ------------------------------ helpers -------------------------------- *)
Min(a, b) == IF a < b THEN a ELSE b
Max(a, b) == IF a > b THEN a ELSE b

\* s without its first n elements (mprAdjustBufStart, iovec start += n).
Drop(s, n) == SubSeq(s, n + 1, Len(s))
Take(s, n) == SubSeq(s, 1, n)
RemoveAt(s, i) == SubSeq(s, 1, i - 1) \o SubSeq(s, i + 1, Len(s))
IsPrefixOf(s, t) == Len(s) <= Len(t) /\ SubSeq(t, 1, Len(s)) = s

NoReq == [called |-> FALSE]
NoResult == "nocall"

\* The identity of byte k of buffer `kind` (1 prefix, 2 content, 3 headers) of packet i.
MemTag(kind, i, k) == 1000 * kind + 10 * i + k

\* The bytes of the file from offset pos, n of them.
FileBytes(pos, n) == [k \in 1 .. n |-> pos + k - 1]

(* ------------------------------ packets -------------------------------- *)
\* HttpPacket: flags (one of the HTTP_PACKET_ kinds), prefix and content
\* buffers (<<>> for a null or empty buffer), esize and epos.
Packet(flags, prefix, content, esize, epos) ==
    [flags |-> flags, prefix |-> prefix, content |-> content, esize |-> esize, epos |-> epos]

EndPacket == Packet("End", <<>>, <<>>, 0, 0)
httpGetPacketLength(packet) == Len(packet.content)

\* The bytes httpWriteHeaders puts in the header packet.
HeaderBytes == [k \in 1 .. BufLen |-> MemTag(3, 0, k)]

\* Every byte a packet still has to send, in sending order.
PacketBytes(p) == p.prefix \o p.content \o FileBytes(p.epos, p.esize)
PacketLeft(p) == Len(p.prefix) + Len(p.content) + p.esize

RECURSIVE QueueBytes(_)
QueueBytes(q) == IF q = <<>> THEN <<>> ELSE PacketBytes(Head(q)) \o QueueBytes(Tail(q))

\* q->count: the content bytes of the queued packets.
RECURSIVE QueueCount(_)
QueueCount(q) == IF q = <<>> THEN 0 ELSE httpGetPacketLength(Head(q)) + QueueCount(Tail(q))

\* The shapes of data packets put on the queue: with or without a prefix, and
\* with content, with a file extent, or with neither.
Shapes == [pre : BOOLEAN, body : {"none", "content", "file"}]

RECURSIVE FilesBefore(_, _)
FilesBefore(shapes, i) ==
    IF i <= 1 THEN 0
    ELSE FilesBefore(shapes, i - 1) + (IF shapes[i - 1].body = "file" THEN 1 ELSE 0)

DataPacket(shapes, i) ==
    Packet("Data",
           IF shapes[i].pre THEN [k \in 1 .. BufLen |-> MemTag(1, i, k)] ELSE <<>>,
           IF shapes[i].body = "content" THEN [k \in 1 .. BufLen |-> MemTag(2, i, k)] ELSE <<>>,
           IF shapes[i].body = "file" THEN BufLen ELSE 0,
           IF shapes[i].body = "file" THEN BufLen * FilesBefore(shapes, i) ELSE 0)

\* The queue as the pipeline leaves it before the first service call: an
\* optional header packet (not yet serialized), data packets, the End packet.
MkQueue(hasHeader, shapes) ==
    (IF hasHeader THEN <<Packet("Header", <<>>, <<>>, 0, 0)>> ELSE <<>>)
    \o [i \in 1 .. Len(shapes) |-> DataPacket(shapes, i)]
    \o <<EndPacket>>

ShapeSeqs == UNION {[1 .. n -> Shapes] : n \in 0 .. MaxPackets}

EmptyVec == [i \in 0 .. ME_MAX_IOVEC - 1 |-> <<>>]

Limits == {BufLen, BufLen + 1, HTTP_UNLIMITED}

Init ==
    \E hasHeader \in BOOLEAN, shapes \in ShapeSeqs, limit \in Limits, nb \in BOOLEAN :
        /\ Len(shapes) + (IF hasHeader THEN 1 ELSE 0) <= MaxPackets
        /\ queue = MkQueue(hasHeader, shapes)
        /\ count = QueueCount(MkQueue(hasHeader, shapes))
        /\ iovec = EmptyVec
        /\ ioIndex = 0
        /\ ioCount = 0
        /\ ioFile = FALSE
        /\ ioPos = 0
        /\ file = FALSE
        /\ bytesWritten = 0
        /\ writeBlocked = FALSE
        /\ finalizedConnector = FALSE
        /\ noBody = nb
        /\ headersCreated = FALSE
        /\ fileSize = BufLen * FilesBefore(shapes, Len(shapes) + 1)
        /\ txBodySize = limit
        /\ phase = "created"
        /\ closed = FALSE
        /\ errors = {}
        /\ disconnected = FALSE
        /\ finalizeCount = 0
        /\ fileOpens = 0
        /\ fileCloses = 0
        /\ wire = <<>>
        /\ orig = (IF hasHeader THEN HeaderBytes ELSE <<>>)
                  \o QueueBytes(MkQueue(FALSE, shapes))
        /\ sockReq = NoReq
        /\ lastResult = NoResult
        /\ rebuilt = FALSE
        /\ dropped = 0
        /\ leftover = 0

(* ----------------- the state a service call works on ------------------- *)
\* The queue, the vector and the transmission as one record, so that the
\* statements of a callback compose in program order.
Cur ==
    [queue |-> queue, count |-> count, iovec |-> iovec, ioIndex |-> ioIndex,
     ioCount |-> ioCount, ioFile |-> ioFile, ioPos |-> ioPos,
     bytesWritten |-> bytesWritten, writeBlocked |-> writeBlocked,
     finalizedConnector |-> finalizedConnector, headersCreated |-> headersCreated,
     errors |-> errors, disconnected |-> disconnected, finalizeCount |-> finalizeCount,
     dropped |-> dropped, leftover |-> leftover]

(* ------------- collaborators outside sendConnector.c ------------------- *)
\* httpGetPacket(q): take the first packet off the queue.
httpGetPacket(s) ==
    IF s.queue = <<>> THEN s
    ELSE [s EXCEPT !.queue = Tail(@),
                   !.count = @ - httpGetPacketLength(Head(s.queue)),
                   !.dropped = @ + PacketLeft(Head(s.queue))]

\* httpWriteHeaders(q, packet): serialize the response headers into the
\* header packet's content, once per transmission.
httpWriteHeaders(s, i) ==
    IF s.headersCreated THEN s
    ELSE [s EXCEPT !.queue[i].content = HeaderBytes,
                   !.count = @ + Len(HeaderBytes),
                   !.headersCreated = TRUE]

\* httpDiscardQueueData(q, 1): drop the data packets, keep header and End.
httpDiscardQueueData(s) ==
    [s EXCEPT !.queue = SelectSeq(@, LAMBDA p : p.flags # "Data"),
              !.count = QueueCount(SelectSeq(s.queue, LAMBDA p : p.flags # "Data"))]

\* httpFinalizeConnector(conn): the finalize signal.
httpFinalizeConnector(s) ==
    [s EXCEPT !.finalizedConnector = TRUE, !.finalizeCount = @ + 1]

\* httpError / httpLimitError: signal a condition to the connection.
httpError(s, code) == [s EXCEPT !.errors = @ \cup {code}]

\* httpDisconnect(conn)
httpDisconnect(s) == [s EXCEPT !.disconnected = TRUE]

(* --------------------------- buildSendVec ------------------------------ *)
\* Add one entry to the io vector.
addToSendVector(s, bytes) ==
    [s EXCEPT !.iovec = IF s.ioIndex \in DOMAIN s.iovec
                        THEN [s.iovec EXCEPT ![s.ioIndex] = bytes] ELSE s.iovec,
              !.ioCount = @ + Len(bytes),
              !.ioIndex = @ + 1]

\* Add a packet to the io vector.
addPacketForSend(s, packet) ==
    LET s1 == IF packet.prefix # <<>> THEN addToSendVector(s, packet.prefix) ELSE s
    IN  IF packet.esize > 0
        THEN [s1 EXCEPT !.ioFile = TRUE, !.ioCount = @ + packet.esize]
        ELSE IF httpGetPacketLength(packet) > 0
             THEN addToSendVector(s1, packet.content)
             ELSE s1

\* The loop of buildSendVec with `packet` at index i of the queue and `prev`
\* at index prev.  Unlinking with prev = packet assigns packet->next to
\* itself and leaves the packet on the queue.
RECURSIVE buildLoop(_, _, _)
buildLoop(s, i, prev) ==
    IF i > Len(s.queue) \/ s.queue[i].flags = "End" THEN s
    ELSE LET s1 == IF s.queue[i].flags = "Header" THEN httpWriteHeaders(s, i) ELSE s
             packet == s1.queue[i]
         IN  IF s1.ioFile \/ s1.ioIndex >= ME_MAX_IOVEC - 2 THEN s1
             ELSE IF packet.prefix # <<>> \/ packet.esize # 0 \/ httpGetPacketLength(packet) > 0
                  THEN buildLoop(addPacketForSend(s1, packet), i + 1, i)
                  ELSE IF prev = i
                       THEN buildLoop(s1, i + 1, prev)
                       ELSE buildLoop([s1 EXCEPT !.queue = RemoveAt(@, i)], i, prev)

\* Mutant: the loop does not stop after a file extent was included.
RECURSIVE buildLoopManyFiles(_, _, _)
buildLoopManyFiles(s, i, prev) ==
    IF i > Len(s.queue) \/ s.queue[i].flags = "End" THEN s
    ELSE LET s1 == IF s.queue[i].flags = "Header" THEN httpWriteHeaders(s, i) ELSE s
             packet == s1.queue[i]
         IN  IF s1.ioIndex >= ME_MAX_IOVEC - 2 THEN s1
             ELSE IF packet.prefix # <<>> \/ packet.esize # 0 \/ httpGetPacketLength(packet) > 0
                  THEN buildLoopManyFiles(addPacketForSend(s1, packet), i + 1, i)
                  ELSE IF prev = i
                       THEN buildLoopManyFiles(s1, i + 1, prev)
                       ELSE buildLoopManyFiles([s1 EXCEPT !.queue = RemoveAt(@, i)], i, prev)

buildSendVecManyFiles(s) ==
    buildLoopManyFiles([s EXCEPT !.ioCount = 0, !.ioFile = FALSE], 1, 1)

buildSendVec(s) ==
    buildLoop([s EXCEPT !.ioCount = 0, !.ioFile = FALSE], 1, 1)

(* -------------------------- freeSendPackets ---------------------------- *)
\* One pass of the while loop on the first packet: prefix, then extent or
\* content; the packet with the completed bytes taken out, and the bytes left.
freePacket(packet, bytes) ==
    LET plen == Min(Len(packet.prefix), bytes)
        p1 == [packet EXCEPT !.prefix = Drop(@, plen)]
        b1 == bytes - plen
        elen == Min(p1.esize, b1)
        clen == Min(httpGetPacketLength(p1), b1)
    IN  IF p1.esize # 0
        THEN [packet |-> [p1 EXCEPT !.esize = @ - elen, !.epos = @ + elen],
              bytes |-> b1 - elen, len |-> 0]
        ELSE IF httpGetPacketLength(p1) > 0
             THEN [packet |-> [p1 EXCEPT !.content = Drop(@, clen)],
                   bytes |-> b1 - clen, len |-> clen]
             ELSE [packet |-> p1, bytes |-> b1, len |-> 0]

RECURSIVE freeSendPackets(_, _)
freeSendPackets(s, bytes) ==
    IF s.queue = <<>> \/ Head(s.queue).flags = "End" \/ bytes <= 0
    THEN [s EXCEPT !.leftover = bytes]
    ELSE LET r == freePacket(Head(s.queue), bytes)
             s1 == [s EXCEPT !.queue[1] = r.packet, !.count = @ - r.len]
         IN  IF r.packet.esize = 0 /\ httpGetPacketLength(r.packet) = 0
             THEN freeSendPackets(httpGetPacket(s1), r.bytes)
             ELSE [s1 EXCEPT !.leftover = r.bytes]

(* --------------------------- adjustSendVec ----------------------------- *)
\* for (j = i + 1; i < q->ioIndex; ) iovec[j++] = iovec[i++];
RECURSIVE shiftLoop(_, _, _, _)
shiftLoop(vec, i, j, n) ==
    IF i < n
    THEN shiftLoop(IF j \in DOMAIN vec THEN [vec EXCEPT ![j] = vec[i]] ELSE vec, i + 1, j + 1, n)
    ELSE [iovec |-> vec, i |-> i]

\* The for loop of adjustSendVec at its test with index i; past the loop,
\* the file position moves and the vector is reset.
RECURSIVE adjustLoop(_, _, _)
adjustLoop(s, i, written) ==
    IF i < s.ioIndex
    THEN LET len == Len(s.iovec[i])
         IN  IF written < len
             THEN [s EXCEPT !.iovec[i] = Drop(@, written)]
             ELSE LET sh == shiftLoop(s.iovec, i, i + 1, s.ioIndex)
                  IN  adjustLoop([s EXCEPT !.ioCount = @ - len,
                                           !.iovec = sh.iovec,
                                           !.ioIndex = @ - 1],
                                 (sh.i - 1) + 1, written - len)
    ELSE [s EXCEPT !.ioPos = IF written > 0 /\ s.ioFile THEN @ + written ELSE @,
                   !.ioIndex = 0, !.ioCount = 0, !.ioFile = FALSE]

adjustSendVec(s, written) == adjustLoop(s, 0, written)

(* ---------------------------- the transport ---------------------------- *)
\* The memory entries of the vector, in order.
RECURSIVE VecBytes(_, _)
VecBytes(vec, n) == IF n = 0 THEN <<>> ELSE VecBytes(vec, n - 1) \o vec[n - 1]

LiveVec(s) == [k \in 1 .. s.ioIndex |-> s.iovec[k - 1]]

RECURSIVE Concat(_)
Concat(ss) == IF ss = <<>> THEN <<>> ELSE Head(ss) \o Concat(Tail(ss))

\* mprSendFileToSocket(sock, file, q->ioPos, q->ioCount, q->iovec, q->ioIndex, NULL, 0)
\* with file = q->ioFile ? tx->file : 0.
Request(s, f) ==
    [called |-> TRUE, file |-> f, pos |-> s.ioPos, count |-> s.ioCount, vec |-> LiveVec(s)]

\* The bytes a request offers: the vector entries, then, with a file, the
\* rest of the requested count from the file at the position given, as far
\* as the file goes.
Offered(req) ==
    LET mem == Concat(req.vec)
        fileReq == IF req.file THEN Max(0, req.count - Len(mem)) ELSE 0
        fileAvail == Min(fileReq, Max(0, fileSize - req.pos))
    IN  mem \o FileBytes(req.pos, fileAvail)

\* What a call can return: a count of accepted bytes, or -1 and an errno.
TransportResults(req) ==
    [written : 0 .. Len(Offered(req)), errCode : {"none"}]
    \cup [written : {-1}, errCode : ErrCodes]

ResultOf(res) ==
    IF res.written < 0 THEN res.errCode ELSE IF res.written > 0 THEN "written" ELSE "zero"

Accepted(req, res) == IF res.written > 0 THEN Take(Offered(req), res.written) ELSE <<>>

(* ----------------------- httpSendOutgoingService ----------------------- *)
\* (tx->bytesWritten + q->ioCount) > limits->txBodySize && txBodySize < HTTP_UNLIMITED
LimitExceeded(s, limit) ==
    (s.bytesWritten + s.ioCount) > limit /\ limit < HTTP_UNLIMITED

\* Mutant: only EAGAIN is taken as a full socket, EWOULDBLOCK is an error.
afterSendEagainOnly(s, res) ==
    IF res.written < 0
    THEN IF res.errCode = "EAGAIN"
         THEN [s EXCEPT !.writeBlocked = TRUE]
         ELSE httpFinalizeConnector(
                  IF res.errCode # "EPIPE" /\ res.errCode # "ECONNRESET"
                     /\ res.errCode # "ECONNABORTED" /\ res.errCode # "ENOTCONN"
                  THEN httpError(s, "COMMS_ERROR")
                  ELSE httpDisconnect(s))
    ELSE IF res.written > 0
         THEN adjustSendVec(
                  freeSendPackets([s EXCEPT !.bytesWritten = @ + res.written], res.written),
                  res.written)
         ELSE s

\* Mutant: ECONNRESET is reported as a comms error, not taken as the peer gone.
afterSendResetIsError(s, res) ==
    IF res.written < 0
    THEN IF res.errCode = "EAGAIN" \/ res.errCode = "EWOULDBLOCK"
         THEN [s EXCEPT !.writeBlocked = TRUE]
         ELSE httpFinalizeConnector(
                  IF res.errCode # "EPIPE"
                     /\ res.errCode # "ECONNABORTED" /\ res.errCode # "ENOTCONN"
                  THEN httpError(s, "COMMS_ERROR")
                  ELSE httpDisconnect(s))
    ELSE IF res.written > 0
         THEN adjustSendVec(
                  freeSendPackets([s EXCEPT !.bytesWritten = @ + res.written], res.written),
                  res.written)
         ELSE s

\* The branches on the result of the transport call.
afterSend(s, res) ==
    IF res.written < 0
    THEN IF res.errCode = "EAGAIN" \/ res.errCode = "EWOULDBLOCK"
         THEN [s EXCEPT !.writeBlocked = TRUE]
         ELSE httpFinalizeConnector(
                  IF res.errCode # "EPIPE" /\ res.errCode # "ECONNRESET"
                     /\ res.errCode # "ECONNABORTED" /\ res.errCode # "ENOTCONN"
                  THEN httpError(s, "COMMS_ERROR")
                  ELSE httpDisconnect(s))
    ELSE IF res.written > 0
         THEN adjustSendVec(
                  freeSendPackets([s EXCEPT !.bytesWritten = @ + res.written], res.written),
                  res.written)
         ELSE s

\* if (q->first && q->first->flags & HTTP_PACKET_END) { finalize; httpGetPacket }
endOfService(s) ==
    IF s.queue # <<>> /\ Head(s.queue).flags = "End"
    THEN httpGetPacket(httpFinalizeConnector(s))
    ELSE s

\* The service call up to the transport call: discard, limit check, build.
\* `returned` tells that the call returned before the transport call.
beforeSend(s, limit) ==
    LET s1 == IF noBody THEN httpDiscardQueueData(s) ELSE s
        over == LimitExceeded(s1, limit)
        s2 == IF over THEN httpError(s1, "REQUEST_TOO_LARGE") ELSE s1
    IN  IF over /\ s2.bytesWritten # 0
        THEN [s |-> httpFinalizeConnector(s2), returned |-> TRUE, rebuilt |-> FALSE]
        ELSE LET s3 == [s2 EXCEPT !.writeBlocked = FALSE]
             IN  IF s3.ioIndex = 0
                 THEN [s |-> buildSendVec(s3), returned |-> FALSE, rebuilt |-> TRUE]
                 ELSE [s |-> s3, returned |-> FALSE, rebuilt |-> FALSE]

Commit(s) ==
    /\ queue' = s.queue
    /\ count' = s.count
    /\ iovec' = s.iovec
    /\ ioIndex' = s.ioIndex
    /\ ioCount' = s.ioCount
    /\ ioFile' = s.ioFile
    /\ ioPos' = s.ioPos
    /\ bytesWritten' = s.bytesWritten
    /\ writeBlocked' = s.writeBlocked
    /\ finalizedConnector' = s.finalizedConnector
    /\ headersCreated' = s.headersCreated
    /\ errors' = s.errors
    /\ disconnected' = s.disconnected
    /\ finalizeCount' = s.finalizeCount
    /\ dropped' = s.dropped
    /\ leftover' = s.leftover

\* Mutant: the test of tx->finalizedConnector is missing.
ServiceNeverReturnsAtOnce == FALSE

\* if (tx->finalizedConnector) return;
ServiceReturnsAtOnce == finalizedConnector

httpSendOutgoingService ==
    /\ phase = "open"
    /\ ~closed
    /\ UNCHANGED <<file, noBody, fileSize, txBodySize, phase, closed, fileOpens, fileCloses, orig>>
    /\ IF ServiceReturnsAtOnce
       THEN /\ Commit(Cur)
            /\ UNCHANGED wire
            /\ sockReq' = NoReq /\ lastResult' = NoResult /\ rebuilt' = FALSE
       ELSE \E b \in {beforeSend(Cur, txBodySize)} :
                IF b.returned
                THEN /\ Commit(b.s)
                     /\ UNCHANGED wire
                     /\ sockReq' = NoReq /\ lastResult' = NoResult /\ rebuilt' = FALSE
                ELSE \E req \in {Request(b.s, b.s.ioFile /\ file)} :
                     \E res \in TransportResults(req) :
                     \E s \in {endOfService(afterSend(b.s, res))} :
                         /\ Commit(s)
                         /\ wire' = wire \o Accepted(req, res)
                         /\ sockReq' = req
                         /\ lastResult' = ResultOf(res)
                         /\ rebuilt' = b.rebuilt

(* ----------------------------- httpSendOpen ---------------------------- *)
\* Mutant: a file as large as the limit is refused too.
OpenRefusedAtLimit(size, limit) == size >= limit /\ limit < HTTP_UNLIMITED

\* tx->fileInfo.size > limits->txBodySize && limits->txBodySize < HTTP_UNLIMITED
OpenRefused(size, limit) == size > limit /\ limit < HTTP_UNLIMITED

httpSendOpen ==
    /\ phase = "created"
    /\ UNCHANGED <<queue, count, iovec, ioIndex, ioCount, ioFile, ioPos, bytesWritten,
                   writeBlocked, finalizedConnector, noBody, headersCreated, fileSize,
                   txBodySize, closed, disconnected, finalizeCount, fileCloses, wire, orig,
                   sockReq, lastResult, rebuilt, dropped, leftover>>
    /\ \E isSend \in BOOLEAN, opened \in BOOLEAN :
          IF ~isSend
          THEN /\ phase' = "delegated"
               /\ UNCHANGED <<file, errors, fileOpens>>
          ELSE IF noBody
          THEN /\ phase' = "open"
               /\ UNCHANGED <<file, errors, fileOpens>>
          ELSE IF OpenRefused(fileSize, txBodySize)
          THEN /\ phase' = "refused"
               /\ errors' = errors \cup {"REQUEST_TOO_LARGE"}
               /\ UNCHANGED <<file, fileOpens>>
          ELSE /\ phase' = "open"
               /\ fileOpens' = fileOpens + 1
               /\ file' = opened
               /\ errors' = IF opened THEN errors ELSE errors \cup {"NOT_FOUND"}

(* ------------------------------ sendClose ------------------------------ *)
\* Mutant: the handle is closed but tx->file is not cleared.
sendCloseKeepsHandle ==
    /\ phase \in {"open", "refused"}
    /\ closed' = TRUE
    /\ file' = file
    /\ fileCloses' = IF file THEN fileCloses + 1 ELSE fileCloses
    /\ UNCHANGED <<queue, count, iovec, ioIndex, ioCount, ioFile, ioPos, bytesWritten,
                   writeBlocked, finalizedConnector, noBody, headersCreated, fileSize,
                   txBodySize, phase, errors, disconnected, finalizeCount, fileOpens, wire,
                   orig, sockReq, lastResult, rebuilt, dropped, leftover>>

sendClose ==
    /\ phase \in {"open", "refused"}
    /\ closed' = TRUE
    /\ file' = FALSE
    /\ fileCloses' = IF file THEN fileCloses + 1 ELSE fileCloses
    /\ UNCHANGED <<queue, count, iovec, ioIndex, ioCount, ioFile, ioPos, bytesWritten,
                   writeBlocked, finalizedConnector, noBody, headersCreated, fileSize,
                   txBodySize, phase, errors, disconnected, finalizeCount, fileOpens, wire,
                   orig, sockReq, lastResult, rebuilt, dropped, leftover>>

Next == httpSendOpen \/ httpSendOutgoingService \/ sendClose

Spec == Init /\ [][Next]_vars

(* ============================== claims ================================= *)
\* A transmission with a body whose file, if any, was opened, and which no
\* error, limit or disconnect has touched.
CleanRun ==
    /\ phase = "open"
    /\ ~noBody
    /\ errors = {}
    /\ ~disconnected

\* C1: the bytes the transport accepted, over all service calls, are the
\* bytes of the queued packets (prefix, content, file extent) in queue order:
\* at every moment a leading part of them, and all of them once the End packet
\* has left the queue.  Stated for the runs in which no packet left the queue
\* holding unsent bytes.
C1_WireIsQueueOrder ==
    (CleanRun /\ dropped = 0) =>
        /\ IsPrefixOf(wire, orig)
        /\ (queue = <<>> => wire = orig)

\* C1 in full, the runs of packets dropped with unsent bytes included.
C1_WireIsQueueOrderAll ==
    CleanRun =>
        /\ IsPrefixOf(wire, orig)
        /\ (queue = <<>> => wire = orig)

\* The extent of the first packet of q that has one: the file bytes a vector
\* built over q includes.
RECURSIVE FirstExtent(_)
FirstExtent(q) ==
    IF q = <<>> THEN 0
    ELSE IF Head(q).esize > 0 THEN Head(q).esize ELSE FirstExtent(Tail(q))

\* C2: after every accounting pass (a transport call that accepted bytes, then
\* freeSendPackets and adjustSendVec), q->ioCount is the sum of the lengths of
\* the live vector entries plus the file-extent bytes the vector includes.
C2_IoCountIsSum ==
    lastResult = "written" =>
        ioCount = Len(VecBytes(iovec, ioIndex)) + (IF ioFile THEN FirstExtent(queue) ELSE 0)

\* C3: once tx->finalizedConnector is set, a service call makes no transport
\* call and changes nothing of the queue, the vector and the transmission.
C3_FinalizedServiceIsNoOp ==
    [][(finalizedConnector /\ httpSendOutgoingService) =>
          /\ sockReq' = NoReq
          /\ UNCHANGED <<queue, count, iovec, ioIndex, ioCount, ioFile, ioPos,
                         bytesWritten, writeBlocked, finalizedConnector, finalizeCount,
                         errors, disconnected, wire>>]_vars

\* A service call ran after the transmission completed: completion through the
\* End packet makes a transport call, the call after it makes none.
C3_Witness ==
    /\ finalizedConnector
    /\ queue = <<>>
    /\ wire = orig
    /\ wire # <<>>
    /\ lastResult = "nocall"

\* C4: httpFinalizeConnector is never called a second time in a transmission.
C4_FinalizeOnce == finalizeCount <= 1

HasEnd(q) == \E i \in 1 .. Len(q) : q[i].flags = "End"

\* Byte counts freeSendPackets is tried on: up to more than the queue holds.
ByteCounts == 0 .. (2 * BufLen * MaxPackets + 1)

\* C5: freeSendPackets never takes the End packet off the queue, whatever the
\* byte count; the End packet is off the queue only after a finalize, with
\* every packet before it removed, and (in a transmission with a body and
\* without errors) none of them removed while it still held bytes to send.
C5_EndLeavesLast ==
    /\ HasEnd(queue) => \A n \in ByteCounts : HasEnd(freeSendPackets(Cur, n).queue)
    /\ ~HasEnd(queue) => (queue = <<>> /\ finalizeCount >= 1)
    /\ (~HasEnd(queue) /\ CleanRun) => dropped = 0

WouldBlock == {"EAGAIN", "EWOULDBLOCK"}

\* C7: a service call that starts with a built vector (ioIndex > 0) and gets
\* EAGAIN / EWOULDBLOCK sets writeBlocked, changes nothing of bytesWritten,
\* the queue and the vector, and does not finalize; the service call after it
\* makes the same transport request without rebuilding the vector, and leaves
\* writeBlocked set only if it is blocked again.
C7_WouldBlockKeepsState ==
    [][httpSendOutgoingService =>
          /\ (~finalizedConnector /\ ioIndex > 0 /\ lastResult' \in WouldBlock) =>
                /\ writeBlocked'
                /\ UNCHANGED <<bytesWritten, queue, count, iovec, ioIndex, ioCount, ioFile,
                               ioPos, finalizedConnector, finalizeCount, wire>>
          /\ (lastResult \in WouldBlock /\ ~rebuilt) =>
                /\ sockReq'.called
                /\ sockReq' = sockReq
                /\ ~rebuilt'
                /\ writeBlocked' = (lastResult' \in WouldBlock)]_vars

\* A call with a vector left by a partial write was blocked.
C7_Witness ==
    /\ lastResult \in WouldBlock
    /\ ~rebuilt
    /\ writeBlocked
    /\ ioIndex > 0
    /\ bytesWritten > 0
    /\ sockReq.called

\* The index of the first packet of q from i on that has a file extent, or 0.
RECURSIVE FirstFile(_, _)
FirstFile(q, i) ==
    IF i > Len(q) THEN 0 ELSE IF q[i].esize > 0 THEN i ELSE FirstFile(q, i + 1)

\* The memory bytes (prefix, content) of the first n packets of q.
RECURSIVE MemBytes(_, _)
MemBytes(q, n) == IF n = 0 THEN <<>> ELSE MemBytes(q, n - 1) \o q[n].prefix \o q[n].content

\* C8: a vector as buildSendVec leaves it (the call built it and accounted no
\* bytes afterwards) includes the file extent of at most one packet, the first
\* that has one, and that extent is the last contributor: the memory entries
\* are those of the packets before it and its own prefix, nothing of a later
\* packet, and ioCount is their length plus that single esize.
C8_OneFileExtentLast ==
    (rebuilt /\ lastResult # "written") =>
        LET k == FirstFile(queue, 1)
            mem == VecBytes(iovec, ioIndex)
        IN  IF ioFile
            THEN /\ k > 0
                 /\ mem = MemBytes(queue, k - 1) \o queue[k].prefix
                 /\ ioCount = Len(mem) + queue[k].esize
            ELSE /\ ioCount = Len(mem)
                 /\ IsPrefixOf(mem, MemBytes(queue, IF k = 0 THEN Len(queue) ELSE k - 1))

\* A vector was built over a queue with two file packets.
C8_Witness ==
    /\ rebuilt
    /\ lastResult \in WouldBlock
    /\ ioFile
    /\ Cardinality({i \in 1 .. Len(queue) : queue[i].esize > 0}) = 2

\* C9: httpSendOpen of a send-connector transmission with a body refuses
\* exactly the files larger than a finite txBodySize: it signals the
\* request-too-large error, opens no file, and the transmission never gets a
\* transport call; a file as large as the limit, or an unlimited limit, goes
\* on to open the file.
C9_OpenRefusesOverLimit ==
    /\ (phase \in {"open", "refused"} /\ ~noBody) =>
           (phase = "refused" <=> (fileSize > txBodySize /\ txBodySize # HTTP_UNLIMITED))
    /\ phase = "refused" =>
           /\ ~noBody
           /\ "REQUEST_TOO_LARGE" \in errors
           /\ fileOpens = 0
           /\ ~file
           /\ sockReq = NoReq
           /\ wire = <<>>
           /\ bytesWritten = 0
    /\ (phase = "open" /\ ~noBody) => fileOpens = 1

\* An open was refused for a file larger than the limit.
C9_Witness ==
    /\ phase = "refused"
    /\ fileSize > txBodySize
    /\ closed

\* C10: a service call that finds bytesWritten + q->ioCount above a finite
\* txBodySize makes no transport call, whether bytesWritten is 0 or not.
\* Stated for the transmissions whose file opened.
C10_OverLimitNoTransportCall ==
    [][(httpSendOutgoingService
        /\ ~finalizedConnector
        /\ "NOT_FOUND" \notin errors
        /\ bytesWritten + ioCount > txBodySize
        /\ txBodySize # HTTP_UNLIMITED) => ~sockReq'.called]_vars

(* ------- the transmission that is served until it completes ------------ *)
\* An unlimited transmission with a body whose file opens, served again and
\* again over a transport that reports no error but EAGAIN / EWOULDBLOCK.
LiveInit == Init /\ txBodySize = HTTP_UNLIMITED /\ ~noBody

LiveOpen == httpSendOpen /\ phase' = "open" /\ file'

\* A service call in which the transport accepts at least one byte.
ServiceAccepts == httpSendOutgoingService /\ lastResult' = "written"

\* A service call that finds the socket full.
ServiceBlocked == httpSendOutgoingService /\ lastResult' \in {"EAGAIN", "EWOULDBLOCK"}

\* A service call with nothing accepted: nothing was offered, or the
\* transmission is finalized.
ServiceIdle == httpSendOutgoingService /\ lastResult' \in {"zero", "nocall"}

LiveNext == LiveOpen \/ ServiceAccepts \/ ServiceBlocked \/ ServiceIdle

\* The event loop calls the service again whenever the socket is writable:
\* a request that offers bytes has one accepted in the end, and a request
\* that offers none returns 0 in the end.
LiveSpec ==
    /\ LiveInit
    /\ [][LiveNext]_vars
    /\ WF_vars(LiveOpen)
    /\ WF_vars(ServiceAccepts)
    /\ WF_vars(ServiceIdle)

\* C6 as a temporal formula: served again and again without errors, a
\* transmission is eventually finalized with the End packet off the queue.
C6_EventuallyFinalized == <>(finalizedConnector /\ queue = <<>>)

\* The next service call can get somewhere: it finalizes, or it offers the
\* transport at least one byte.  Where it cannot, the call returns 0 or
\* blocks and leaves the queue as it is, and so does every call after it.
CanProgress ==
    LET b == beforeSend(Cur, txBodySize)
    IN  \/ b.returned
        \/ Offered(Request(b.s, b.s.ioFile /\ file)) # <<>>
        \/ endOfService(b.s).finalizedConnector

\* C6, as a finite run refutes it: an open transmission that is not yet
\* finalized is never stuck with a packet other than End at the front of the
\* queue and nothing to send.
C6_NeverStuck == (phase = "open" /\ ~finalizedConnector) => CanProgress

(* ------------------------ claims C11 .. C20 ---------------------------- *)
\* errno values that tell the peer is gone.
PeerGone == {"EPIPE", "ECONNRESET", "ECONNABORTED", "ENOTCONN"}

C12_OpenFailureIsTerminal ==
    "NOT_FOUND" \in errors => (sockReq = NoReq /\ wire = <<>> /\ bytesWritten = 0)

\* The file was opened by httpSendOpen.
FileWasOpened == fileOpens = 1 /\ "NOT_FOUND" \notin errors

\* C13: the file handle is closed exactly once: before sendClose it is open
\* iff mprOpenFile succeeded and nothing was closed, whichever way the
\* transmission was finalized; after sendClose, run once or more, tx->file is
\* clear and mprCloseFile was called once if the file was opened, never
\* otherwise.
C13_FileClosedOnce ==
    /\ fileCloses <= 1
    /\ ~closed => (fileCloses = 0 /\ (file <=> FileWasOpened))
    /\ closed => (~file /\ fileCloses = (IF FileWasOpened THEN 1 ELSE 0))

\* The file was closed after a transport error finalized the transmission.
C13_Witness ==
    /\ closed
    /\ fileCloses = 1
    /\ ~file
    /\ finalizedConnector
    /\ "COMMS_ERROR" \in errors

\* C14: no packet is taken off the queue while it holds bytes still to send
\* (prefix, content or file extent): freeSendPackets removes only packets
\* that are fully drained, and a packet whose prefix was partly consumed
\* stays at the front.
C14_OnlyDrainedPacketsLeave == dropped = 0

\* The vector entries left after w bytes were accepted: the first entry that
\* was not fully sent, cut at its start, and the entries after it.
RECURSIVE RemainingEntries(_, _)
RemainingEntries(vec, w) ==
    IF vec = <<>> THEN <<>>
    ELSE IF w < Len(Head(vec)) THEN <<Drop(Head(vec), w)>> \o Tail(vec)
    ELSE RemainingEntries(Tail(vec), w - Len(Head(vec)))

\* C15: after a transport call accepted w bytes, fewer than the memory
\* entries hold, the vector holds exactly the entries not yet sent in their
\* order (the first of them cut at its start) and ioFile and ioPos are
\* unchanged; the vector is reset only when w covers every memory entry.
C15_AdjustKeepsUnsentEntries ==
    [][(httpSendOutgoingService /\ lastResult' = "written") =>
          LET w == Len(wire') - Len(wire)
              b == beforeSend(Cur, txBodySize).s
          IN  IF w < Len(Concat(sockReq'.vec))
              THEN /\ [k \in 1 .. ioIndex' |-> iovec'[k - 1]] = RemainingEntries(sockReq'.vec, w)
                   /\ ioFile' = b.ioFile
                   /\ ioPos' = b.ioPos
              ELSE ioIndex' = 0 /\ ~ioFile']_vars

\* A packet that contributes no bytes and is not the End packet.
IsDead(p) == p.flags # "End" /\ p.prefix = <<>> /\ p.esize = 0 /\ httpGetPacketLength(p) = 0

\* The vector entries the first n packets of q make.
RECURSIVE Entries(_, _)
Entries(q, n) ==
    IF n = 0 THEN 0
    ELSE Entries(q, n - 1) + (IF q[n].prefix # <<>> THEN 1 ELSE 0)
                           + (IF q[n].content # <<>> THEN 1 ELSE 0)

\* The scan of buildSendVec over q gets to packet i: no packet before it is
\* the End packet or has a file extent, and the vector is not full there.
Visited(q, i) ==
    /\ \A j \in 1 .. i - 1 : q[j].flags # "End" /\ q[j].esize = 0
    /\ Entries(q, i - 1) < ME_MAX_IOVEC - 2

\* C16: after a buildSendVec pass (before any byte is accounted), no packet
\* the scan visited is dead, the first packet of the queue included.
C16_NoDeadPacketAfterBuild ==
    (rebuilt /\ lastResult # "written") =>
        \A i \in 1 .. Len(queue) : Visited(queue, i) => ~IsDead(queue[i])

\* C17: the assertion that ends freeSendPackets, bytes == 0, holds in every
\* accounting pass: every byte the transport accepted is absorbed by the
\* packets at the front of the queue.  Stated for the transmissions whose
\* file opened.
C17_AllBytesAbsorbed == "NOT_FOUND" \notin errors => leftover = 0

\* C18: the vector never holds more than ME_MAX_IOVEC - 2 entries.  Stated
\* for the transmissions no error has touched.
C18_VectorWithinCapacity == (phase = "open" /\ errors = {}) => ioIndex <= ME_MAX_IOVEC - 2

\* C19: a transport call made with the file passes as the file offset the
\* epos of the packet whose extent the vector includes, the first packet of
\* the queue with an extent.
C19_FilePosIsEpos ==
    [][(httpSendOutgoingService /\ sockReq'.called /\ sockReq'.file) =>
          LET q == beforeSend(Cur, txBodySize).s.queue
              k == FirstFile(q, 1)
          IN  k > 0 /\ sockReq'.pos = q[k].epos]_vars

\* C20: with a finite txBodySize, bytesWritten never exceeds it.  Stated for
\* the transmissions of a header and file packets, the file opened and no
\* larger than the limit.
C20_BytesWrittenWithinLimit ==
    (/\ phase = "open"
     /\ ~noBody
     /\ FileWasOpened
     /\ orig = HeaderBytes \o FileBytes(0, fileSize)
     /\ txBodySize # HTTP_UNLIMITED) => bytesWritten <= txBodySize
====
